---------------------------- MODULE Spec2Model ----------------------------
(***************************************************************************)
(* Model of github.com/shengyanli1982/retry: the Config normalisation done *)
(* by New, and the attempt loop of Retry.TryOnConflict with its timer, its *)
(* cancellation token, the retry predicate, the OnRetry callback, the      *)
(* per-error budget map and the global attempt budget.                     *)
(*                                                                         *)
(* An invocation is a goroutine p.  Its loop is cut where the Go code can  *)
(* be observed from outside: at the select (the timer channel and the      *)
(* token's Done channel are written by the runtime and by the caller), at  *)
(* the call of the operation fn (caller's code), and between the read and  *)
(* the write of the shared per-error map.                                  *)
(***************************************************************************)
EXTENDS Integers, Sequences, FiniteSets, TLC

\* ------------------------------------------------------------- bounds
\* Largest in-range attempt budget a caller passes to WithAttempts.
MaxAttempts == 3
\* Largest remaining count a caller puts in the WithAttemptsByError map.
MaxBudget == 2
\* The same two bounds for the engine that two goroutines share.
MaxParAttempts == 2
MaxParBudget == 1
\* Largest small argument passed to a backoff function (the large ones are
\* the powers of two of LargeExponents).
MaxInterval == 3
\* Largest argument passed to ExponentialBackoff.
MaxPower == 64
\* Longest list of functions passed to CombineBackoffs.
MaxCombine == 2
\* Largest value a caller passes to WithFactor.
MaxFactor == 2

\* ---------------------------------------------------- program constants
defaultAttempts == 3
MaxUint16 == 65535
defaultDelayNum == 5
\* defaultJitter = 3.0 and defaultFactor = 1.0: the float64 fields factor and
\* jitter take whole values here.
defaultJitter == 3
defaultFactor == 1
maxExponent == 62
\* time.Millisecond, in nanoseconds.
Millisecond == 1000000

\* ------------------------------------------------------------- values
\* Go's nil (error, any, pointer).
Nil == "nil"
\* Errors the operation returns.
Errs == {"E1", "E2"}

ErrorRetryIf == "ErrorRetryIf"
ErrorRetryAttemptsExceeded == "ErrorRetryAttemptsExceeded"
ErrorRetryAttemptsByErrorExceeded == "ErrorRetryAttemptsByErrorExceeded"
ErrorExecErrByIndexOutOfBound == "ErrorExecErrByIndexOutOfBound"
ErrorExecErrNotFound == "ErrorExecErrNotFound"
\* ctx.Err() of a cancelled context.
ContextCanceled == "context.Canceled"

\* The goroutines that call TryOnConflict on the one engine.
Procs == {1, 2}
\* The goroutines of the sequential specification.
SeqProcs == {1}

\* An optional value: <<>> is nil, <<x>> is x.
None == <<>>
Some(x) == <<x>>

\* ------------------------------------------ int64 and time.Duration
\* A signed 64-bit integer (int64, time.Duration in nanoseconds) is its
\* two's complement representation: eight bytes, the least significant at 0.
\* Addition and multiplication wrap around as Go's do.
Bytes == 0..7

\* The bytes of n, 0 <= n < 2^31.
NatBytes(n) == [i \in Bytes |-> IF i < 4 THEN (n \div (256 ^ i)) % 256 ELSE 0]

\* int64(n) for a small integer n.
Int64(n) ==
    IF n >= 0 THEN NatBytes(n)
    ELSE [i \in Bytes |-> 255 - NatBytes((-n) - 1)[i]]

\* int64(1) << k, which is 0 from k = 64 on.
Pow2(k) == [i \in Bytes |-> IF i = k \div 8 THEN 2 ^ (k % 8) ELSE 0]

Negative(a) == a[7] >= 128
IsZero(a) == \A i \in Bytes : a[i] = 0
Positive(a) == ~Negative(a) /\ ~IsZero(a)

\* a < b as unsigned numbers.
LessU(a, b) ==
    \E i \in Bytes : a[i] < b[i] /\ \A j \in Bytes : j > i => a[j] = b[j]

\* a < b as int64.
Less(a, b) ==
    IF Negative(a) # Negative(b) THEN Negative(a) ELSE LessU(a, b)

\* a + b on int64: s0 .. s7 are the byte sums, each with the carry of the
\* byte before; the eight bytes are computed once.
Add64(a, b) ==
    LET s0 == a[0] + b[0]
        s1 == a[1] + b[1] + s0 \div 256
        s2 == a[2] + b[2] + s1 \div 256
        s3 == a[3] + b[3] + s2 \div 256
        s4 == a[4] + b[4] + s3 \div 256
        s5 == a[5] + b[5] + s4 \div 256
        s6 == a[6] + b[6] + s5 \div 256
        s7 == a[7] + b[7] + s6 \div 256
        t  == <<s0 % 256, s1 % 256, s2 % 256, s3 % 256,
                s4 % 256, s5 % 256, s6 % 256, s7 % 256>>
    IN  [i \in Bytes |-> t[i + 1]]

RECURSIVE MulColumn(_, _, _, _)
\* The sum of the byte products a[j] * b[i - j] for j from k to i.
MulColumn(a, b, i, k) ==
    IF k > i THEN 0 ELSE a[k] * b[i - k] + MulColumn(a, b, i, k + 1)

\* a * b on int64: s0 .. s7 are the columns of the long multiplication, each
\* with the carry of the column before; the eight bytes are computed once.
Mul64(a, b) ==
    LET s0 == MulColumn(a, b, 0, 0)
        s1 == MulColumn(a, b, 1, 0) + s0 \div 256
        s2 == MulColumn(a, b, 2, 0) + s1 \div 256
        s3 == MulColumn(a, b, 3, 0) + s2 \div 256
        s4 == MulColumn(a, b, 4, 0) + s3 \div 256
        s5 == MulColumn(a, b, 5, 0) + s4 \div 256
        s6 == MulColumn(a, b, 6, 0) + s5 \div 256
        s7 == MulColumn(a, b, 7, 0) + s6 \div 256
        t  == <<s0 % 256, s1 % 256, s2 % 256, s3 % 256,
                s4 % 256, s5 % 256, s6 % 256, s7 % 256>>
    IN  [i \in Bytes |-> t[i + 1]]

\* config.go: defaultDelay = defaultDelayNum * time.Millisecond * 100
defaultDelay == Int64(defaultDelayNum * Millisecond * 100)

\* backoff.go: baseInterval = 100 * time.Millisecond
baseInterval == Int64(100 * Millisecond)

\* ------------------------------------------------------- backoff.go
\* func FixedBackoff(interval int64) time.Duration
FixedBackoff(interval) ==
    IF ~Positive(interval) THEN defaultDelay
    ELSE Mul64(interval, baseInterval)

\* Exponents of the large arguments: 2^36 * 100ms is the last power of two
\* of intervals below 2^63 ns.
LargeExponents == {36, 37, 55, 56, 62}

\* The values drawn for randGen.Int63n(n): a few of the numbers in [0, n).
Int63n(n) ==
    {k \in {Int64(j) : j \in 0..MaxInterval} \cup {Pow2(e) : e \in LargeExponents}
          \cup {Add64(n, Int64(-1))} : LessU(k, n)}

\* func RandomBackoff(maxInterval int64) time.Duration, for the drawn interval
RandomBackoff(maxInterval, interval) ==
    IF ~Positive(maxInterval) THEN defaultDelay
    ELSE Mul64(interval, baseInterval)

\* int64(math.Exp2(float64(power))) for 0 < power <= maxExponent
Exp2(power) == Pow2(power[0])

\* func ExponentialBackoff(power int64) time.Duration
ExponentialBackoff(power) ==
    IF ~Positive(power) THEN defaultDelay
    ELSE LET clamped == IF Less(Int64(maxExponent), power)
                        THEN Int64(maxExponent) ELSE power
         IN  Mul64(Exp2(clamped), baseInterval)

\* The functions a caller puts in a list for CombineBackoffs: the three of
\* the package and two of the caller's own, one returning 0 and one -1ns.
BackoffFuncs == {"FixedBackoff", "RandomBackoff", "ExponentialBackoff", "zero", "negative"}

\* The results backoff(n) can have.
ApplyBackoff(backoff, n) ==
    CASE backoff = "FixedBackoff"       -> {FixedBackoff(n)}
      [] backoff = "RandomBackoff"      ->
            IF Positive(n) THEN {RandomBackoff(n, k) : k \in Int63n(n)}
            ELSE {RandomBackoff(n, n)}
      [] backoff = "ExponentialBackoff" -> {ExponentialBackoff(n)}
      [] backoff = "zero"               -> {Int64(0)}
      [] backoff = "negative"           -> {Int64(-1)}

RECURSIVE TotalDelay(_)
\* totalDelay += backoff(n), over the results of the constituents
TotalDelay(parts) ==
    IF parts = <<>> THEN Int64(0)
    ELSE Add64(TotalDelay(SubSeq(parts, 1, Len(parts) - 1)), parts[Len(parts)])

\* func CombineBackoffs(backoffs ...BackoffFunc) BackoffFunc, applied to n,
\* parts being what the constituents returned for n
CombineBackoffs(backoffs, n, parts) ==
    IF Len(backoffs) = 0 THEN FixedBackoff(n)
    ELSE IF ~Positive(TotalDelay(parts)) THEN defaultDelay
    ELSE TotalDelay(parts)

\* ------------------------------------------------ unnamed/part_001
\* The backoff functions the configuration of the engine refers to.
baseTimeDuration == Int64(100 * Millisecond)

\* func FixBackOff(delay int64) time.Duration
FixBackOff(delay) == Mul64(delay, baseTimeDuration)

\* func RandomBackOff(delay int64) time.Duration, for the value drawn by
\* rand.Int63n(delay)
RandomBackOff(delay, drawn) == Mul64(drawn, baseTimeDuration)

\* func ExponentialBackOff(delay int64) time.Duration, for 0 < delay <= 62,
\* where math.Exp2 is exact and fits an int64
ExponentialBackOff(delay) == Mul64(Exp2(delay), baseTimeDuration)

\* The function CombineBackOffs returns, on the results of its constituents.
CombineBackOffs(parts) ==
    IF ~Positive(TotalDelay(parts)) THEN defaultDelay ELSE TotalDelay(parts)

\* config.go: defaultBackoffFunc(n) =
\*     CombineBackOffs(ExponentialBackOff, RandomBackOff)(n)
defaultBackoffFunc(n, drawn) ==
    CombineBackOffs(<<ExponentialBackOff(n), RandomBackOff(n, drawn)>>)

\* The values drawn for rand.Float64(), in tenths.
Float64Draws == {0, 9}

VARIABLES
    engine,      \* "none" before New, "built" after
    config,      \* the *Config the caller passes to New and the engine keeps
    ctxDone,     \* whether config.ctx.Done() is closed
    pc,          \* pc[p]: where goroutine p is in TryOnConflict
    result,      \* result[p]: the *Result of p's current invocation
    timer,       \* timer[p]: state of the invocation's time.Timer tr
    curErr,      \* curErr[p]: the local err of the current attempt
    errAttempts, \* errAttempts[p]: the local read from attemptsByError[err]
    opLog,       \* opLog[p]: what fn returned, attempt by attempt (history)
    cbLog,       \* cbLog[p]: the OnRetry calls of the invocation (history)
    startBudget, \* startBudget[p]: attemptsByError when the invocation began (history)
    cancelFirst, \* cancelFirst[p]: the token fired before the first wait's timer (history)
    calc,        \* the last call of a backoff function: its name, argument and result
    backoff,     \* backoff[p]: the local backoff of the loop body, the wait computed
                 \* after a failed attempt, until the iteration ends
    pressure,    \* pressure[p]: the local delay of the loop body, the number passed
                 \* to the backoff function, until the iteration ends
    onRetryDelay, \* onRetryDelay[p]: the delay given to the OnRetry call of the
                 \* iteration, until the iteration ends
    timerFor     \* timerFor[p]: the duration tr was last set to by NewTimer or
                 \* Reset, until tr is stopped

vars == <<engine, config, ctxDone, pc, result, timer, curErr, errAttempts,
          opLog, cbLog, startBudget, cancelFirst, calc, backoff, pressure,
          onRetryDelay, timerFor>>


\* ------------------------------------------------------------- Config
\* The map held in config.attemptsByError (a non-nil map).
BudgetMap(conf) == conf.attemptsByError[1]

\* make(map[error]uint64)
EmptyMap == [e \in {} |-> 0]

\* defaultRetryIfFunc returns true for every error: the set of accepted errors.
defaultRetryIfFunc == Errs

NewConfig ==
    [isNil           |-> FALSE,
     ctx             |-> "background",
     callback        |-> "empty",
     attempts        |-> defaultAttempts,
     attemptsByError |-> Some(EmptyMap),
     factor          |-> defaultFactor,
     delay           |-> defaultDelay,
     jitter          |-> defaultJitter,
     retryIfFunc     |-> Some(defaultRetryIfFunc),
     backoffFunc     |-> Some("defaultBackoffFunc"),
     detail          |-> FALSE]

\* Faulty variant: a budget of 0 is kept instead of being replaced by the default.
AttemptsInvalid_KeepsZero(attempts) == attempts >= MaxUint16

AttemptsInvalid(attempts) == attempts <= 0 \/ attempts >= MaxUint16

\* Faulty variant: a factor of 0 is replaced by the default as well.
FactorInvalid_ZeroToo(factor) == factor <= 0

\* config.go: conf.factor < 0
FactorInvalid(factor) == factor < 0

isConfigValid(conf) ==
    IF conf.isNil
    THEN NewConfig
    ELSE [conf EXCEPT
            !.ctx = IF @ = Nil THEN "background" ELSE @,
            !.callback = IF @ = Nil THEN "empty" ELSE @,
            !.attempts = IF AttemptsInvalid(@) THEN defaultAttempts ELSE @,
            !.attemptsByError = IF @ = None THEN Some(EmptyMap) ELSE @,
            !.factor = IF FactorInvalid(@) THEN defaultFactor ELSE @,
            !.delay = IF ~Positive(@) THEN defaultDelay ELSE @,
            !.jitter = IF @ < 0 THEN defaultJitter ELSE @,
            !.retryIfFunc = IF @ = None THEN Some(defaultRetryIfFunc) ELSE @,
            !.backoffFunc = IF @ = None THEN Some("defaultBackoffFunc") ELSE @]

\* FixConfig: NewConfig().WithBackOffFunc(FixBackOff).WithFactor(0).WithJitter(0)
FixConfig ==
    [NewConfig EXCEPT !.backoffFunc = Some("FixBackOff"), !.factor = 0, !.jitter = 0]

\* The maps a caller passes to WithAttemptsByError.
CallerMaps ==
    UNION {[D -> 0..MaxBudget] : D \in SUBSET Errs}

\* The configurations a caller passes to New: nil, or a *Config whose
\* fields were set through the With... methods or left at Go's zero value.
\* The caller of these has switched the jitter off and chosen FixBackOff;
\* the callers of AnyConfigs and WaitConfigs vary the timing fields.
CallerConfigs ==
    {[NewConfig EXCEPT !.isNil = TRUE]} \cup
    [isNil           : {FALSE},
     ctx             : {Nil, "cancelable"},
     callback        : {Nil, "user"},
     attempts        : (0..MaxAttempts) \cup {MaxUint16},
     attemptsByError : {None} \cup {Some(m) : m \in CallerMaps},
     factor          : {defaultFactor},
     delay           : {defaultDelay},
     jitter          : {0},
     retryIfFunc     : {None} \cup {Some(S) : S \in SUBSET Errs},
     backoffFunc     : {Some("FixBackOff")},
     detail          : BOOLEAN]

\* The values a caller passes to WithFactor and to WithJitter.
Factors == (-1)..MaxFactor
Jitters == {-1, 0, defaultJitter}

\* The values a caller passes to WithInitDelay.
Delays == {Int64(-1), Int64(0), Int64(1), defaultDelay}

\* The values a caller passes to WithBackOffFunc.
BackOffFuncs ==
    {None, Some("FixBackOff"), Some("RandomBackOff"), Some("ExponentialBackOff"),
     Some("defaultBackoffFunc")}

\* Configurations with every field missing, degenerate or in range.
AnyConfigs ==
    {[NewConfig EXCEPT !.isNil = TRUE], FixConfig} \cup
    [isNil           : {FALSE},
     ctx             : {Nil, "cancelable"},
     callback        : {Nil, "user"},
     attempts        : {0, 1, MaxAttempts, MaxUint16 - 1, MaxUint16, MaxUint16 + 1},
     attemptsByError : {None, Some(EmptyMap), Some([e \in {"E1"} |-> MaxBudget])},
     factor          : Factors,
     delay           : Delays,
     jitter          : Jitters,
     retryIfFunc     : {None, Some({}), Some(Errs)},
     backoffFunc     : BackOffFuncs,
     detail          : BOOLEAN]

\* ------------------------------------------------------------- Result
NewResult == [count |-> 0, data |-> Nil, tryError |-> Nil, execErrors |-> <<>>]

\* Faulty variant: success is reported whenever some payload is present.
IsSuccess_ByData(r) == r.data # Nil

IsSuccess(r) == r.tryError = Nil

\* Faulty variant: the last error is taken from the front of the list.
LastExecError_First(r) ==
    IF Len(r.execErrors) > 0 THEN r.execErrors[1] ELSE ErrorExecErrNotFound

LastExecError(r) ==
    IF Len(r.execErrors) > 0 THEN r.execErrors[Len(r.execErrors)] ELSE ErrorExecErrNotFound

FirstExecError(r) ==
    IF Len(r.execErrors) > 0 THEN r.execErrors[1] ELSE ErrorExecErrNotFound

\* A run-time panic of the goroutine (index out of range).
Panic == "panic"

\* retry.go: if len(r.execErrors) >= 0 && idx < len(r.execErrors) {
\*               return r.execErrors[idx] }; idx is an int, the slice is
\* indexed from 0 and indexing it below 0 panics.
ExecErrorByIndex(r, idx) ==
    IF Len(r.execErrors) >= 0 /\ idx < Len(r.execErrors)
    THEN IF idx >= 0 THEN r.execErrors[idx + 1] ELSE Panic
    ELSE ErrorExecErrByIndexOutOfBound

\* ------------------------------------------------ the operation fn
\* What a call of fn returns: (data, err).
OkResults == {[data |-> "lee", err |-> Nil], [data |-> Nil, err |-> Nil]}
FailResults == {[data |-> Nil, err |-> "E1"], [data |-> "junk", err |-> "E2"]}
OpResults == OkResults \cup FailResults

\* ------------------------------------------- pieces of TryOnConflict
\* Faulty variant: the engine keeps one Result and hands it to every invocation.
ResultOf_Shared(p) == 1

\* retry.go: result := NewResult(): the Result object the invocation of p
\* writes, one object per invocation.
ResultOf(p) == p

\* Faulty variant: the interrupted wait is counted as an attempt.
Cancelled_CountsWait(r) == [r EXCEPT !.tryError = ContextCanceled, !.count = @ + 1]

\* retry.go: result.tryError = r.config.ctx.Err()
Cancelled(r) == [r EXCEPT !.tryError = ContextCanceled]

\* Faulty variant: the operation's error is handed up as the terminal error.
Rejected_ReturnsErr(r, err) == [r EXCEPT !.tryError = err]

\* retry.go: result.tryError = ErrorRetryIf
Rejected(r, err) == [r EXCEPT !.tryError = ErrorRetryIf]

\* Faulty variant: the attempt is not counted.
IncCount_Skip(r) == r

\* retry.go: result.count++
IncCount(r) == [r EXCEPT !.count = @ + 1]

\* Faulty variant: a token that fired during the call turns the success into
\* a cancellation.
Succeed_CancelWins(r, data) ==
    IF ctxDone
    THEN [r EXCEPT !.tryError = ContextCanceled]
    ELSE [r EXCEPT !.data = data, !.tryError = Nil]

\* Faulty variant: the payload is dropped.
Succeed_DropsData(r, data) == [r EXCEPT !.tryError = Nil]

\* retry.go: result.data = data; result.tryError = err (err is nil)
Succeed(r, data) == [r EXCEPT !.data = data, !.tryError = Nil]

\* Faulty variant: the error is never recorded.
RecordDetail_Never(conf, r, err) == r

\* Faulty variant: the error is recorded whether detail is on or off.
RecordDetail_Always(conf, r, err) == [r EXCEPT !.execErrors = Append(@, err)]

\* Faulty variant: only the errors the predicate accepts are recorded.
RecordDetail_OnlyAccepted(conf, r, err) ==
    IF conf.detail /\ err \in conf.retryIfFunc[1]
    THEN [r EXCEPT !.execErrors = Append(@, err)]
    ELSE r

\* retry.go: if r.config.detail { append(result.execErrors, err) }
RecordDetail(conf, r, err) ==
    IF conf.detail THEN [r EXCEPT !.execErrors = Append(@, err)] ELSE r

\* Faulty variant: the predicate's answer is ignored.
ShouldRetry_Always(conf, err) == TRUE

\* retry.go: r.config.retryIfFunc(err)
ShouldRetry(conf, err) == err \in conf.retryIfFunc[1]

\* Faulty variant: the default replaces negative values only.
Pressure_ZeroPasses(conf, r, rnd) ==
    LET delay == (rnd * conf.jitter + 10 * r.count * conf.factor) \div 10
    IN  IF delay < 0 THEN defaultDelayNum ELSE delay

\* Faulty variant: a pressure of 0 or less is passed on as it is.
Pressure_NoDefault(conf, r, rnd) ==
    (rnd * conf.jitter + 10 * r.count * conf.factor) \div 10

\* retry.go: delay := int64(rand.Float64()*float64(r.config.jitter) +
\*     float64(result.count)*r.config.factor); if delay <= 0 { delay =
\*     defaultDelayNum }. rnd is the draw in tenths; the conversion truncates.
Pressure(conf, r, rnd) ==
    LET delay == (rnd * conf.jitter + 10 * r.count * conf.factor) \div 10
    IN  IF delay <= 0 THEN defaultDelayNum ELSE delay

\* The pressures the draws of rand.Float64() give.
Pressures(conf, r) == {Pressure(conf, r, rnd) : rnd \in Float64Draws}

\* The durations r.config.backoffFunc(delay) can return.
BackoffResults(conf, delay) ==
    LET f == conf.backoffFunc[1]
        n == Int64(delay)
    IN  CASE f = "FixBackOff"         -> {FixBackOff(n)}
          [] f = "RandomBackOff"      -> {RandomBackOff(n, k) : k \in Int63n(n)}
          [] f = "ExponentialBackOff" -> {ExponentialBackOff(n)}
          [] f = "defaultBackoffFunc" -> {defaultBackoffFunc(n, k) : k \in Int63n(n)}

\* retry.go: backoff := r.config.backoffFunc(int64(delay)) + r.config.delay
Backoffs(conf, r) ==
    {Add64(d, conf.delay) :
        d \in UNION {BackoffResults(conf, delay) : delay \in Pressures(conf, r)}}

\* retry.go: tr := time.NewTimer(r.config.delay)
NewTimer(conf) == Some(conf.delay)

\* Faulty variant: every wait is the initial delay.
Reset_InitDelay(conf, d) == Some(conf.delay)

\* retry.go: tr.Reset(backoff)
Reset(conf, d) == Some(d)

\* Faulty variant: the callback is given the number of attempts before this one.
NotifyRetry_CountsFromZero(log, r, err) ==
    Append(log, [count |-> r.count - 1, err |-> err])

\* Faulty variant: the callback is not told about the failed attempt.
NotifyRetry_Skip(log, r, err) == log

\* retry.go: r.config.callback.OnRetry(int64(result.count), backoff, err)
NotifyRetry(log, r, err) == Append(log, [count |-> r.count, err |-> err])

\* Faulty variant: the zero value read for a missing key is taken for an entry.
LookupBudget_IgnoresOk(conf, err) ==
    IF err \in DOMAIN BudgetMap(conf) THEN Some(BudgetMap(conf)[err]) ELSE Some(0)

\* retry.go: errAttempts, ok := r.config.attemptsByError[err]
LookupBudget(conf, err) ==
    IF err \in DOMAIN BudgetMap(conf) THEN Some(BudgetMap(conf)[err]) ELSE None

\* Faulty variant: an entry without remaining count does not end the invocation.
ByErrorExceeded_Never(n) == FALSE

\* Faulty variant: the per-error budget is exhausted one failure early.
ByErrorExceeded_Early(n) == n <= 1

\* retry.go: errAttempts <= 0
ByErrorExceeded(n) == n <= 0

\* Faulty variant: off by one, one more attempt than the budget.
AttemptsExceeded_OffByOne(r, conf) == r.count > conf.attempts

\* retry.go: result.count >= r.config.attempts
AttemptsExceeded(r, conf) == r.count >= conf.attempts

\* Faulty variant: the decremented count is stored for every key.
StoreBudget_AllEntries(conf, err, n) ==
    [conf EXCEPT !.attemptsByError =
        Some([e \in DOMAIN BudgetMap(conf) |-> n - 1])]

\* Faulty variant: the decremented count stays in the local variable.
StoreBudget_LocalOnly(conf, err, n) == conf

\* Faulty variant: the entry is decremented in place, as one atomic step on
\* its current value.
StoreBudget_Atomic(conf, err, n) ==
    [conf EXCEPT !.attemptsByError = Some([BudgetMap(conf) EXCEPT ![err] = @ - 1])]

\* retry.go: errAttempts--; r.config.attemptsByError[err] = errAttempts
StoreBudget(conf, err, n) ==
    [conf EXCEPT !.attemptsByError = Some([BudgetMap(conf) EXCEPT ![err] = n - 1])]

\* ------------------------------------------------------------- Init
\* No engine has been built and no function of the package called.
NothingCalled ==
    /\ engine = "none"
    /\ ctxDone = FALSE
    /\ pc = [p \in Procs |-> "idle"]
    /\ result = [p \in Procs |-> NewResult]
    /\ timer = [p \in Procs |-> "none"]
    /\ curErr = [p \in Procs |-> Nil]
    /\ errAttempts = [p \in Procs |-> None]
    /\ opLog = [p \in Procs |-> <<>>]
    /\ cbLog = [p \in Procs |-> <<>>]
    /\ startBudget = [p \in Procs |-> EmptyMap]
    /\ cancelFirst = [p \in Procs |-> FALSE]
    /\ calc = None
    /\ backoff = [p \in Procs |-> None]
    /\ pressure = [p \in Procs |-> None]
    /\ onRetryDelay = [p \in Procs |-> None]
    /\ timerFor = [p \in Procs |-> None]

Init ==
    /\ config \in CallerConfigs
    /\ NothingCalled

\* ------------------------------------------------------------- actions
\* New(conf): conf = isConfigValid(conf); return &Retry{config: conf}
New ==
    /\ engine = "none"
    /\ engine' = "built"
    /\ config' = isConfigValid(config)
    /\ UNCHANGED <<calc, backoff, pressure, onRetryDelay, timerFor, ctxDone, pc, result, timer, curErr, errAttempts,
                   opLog, cbLog, startBudget, cancelFirst>>

\* The caller cancels the context it passed to WithContext.
Cancel ==
    /\ engine = "built"
    /\ config.ctx = "cancelable"
    /\ ~ctxDone
    /\ ctxDone' = TRUE
    /\ cancelFirst' = [p \in Procs |->
            IF pc[p] = "select" /\ result[p].count = 0 /\ timer[p] = "armed"
            THEN TRUE ELSE cancelFirst[p]]
    /\ UNCHANGED <<calc, backoff, pressure, onRetryDelay, timerFor, engine, config, pc, result, timer, curErr, errAttempts,
                   opLog, cbLog, startBudget>>

InFlight(p) == pc[p] \in {"select", "exec", "budget"}

\* Faulty variant: the timer is made before fn is looked at.
CallNil_ArmsTimer(p) ==
    /\ engine = "built"
    /\ ~InFlight(p)
    /\ pc' = [pc EXCEPT ![p] = "returnedNil"]
    /\ timer' = [timer EXCEPT ![p] = "armed"]
    /\ UNCHANGED <<calc, backoff, pressure, onRetryDelay, timerFor, engine, config, ctxDone, result, curErr, errAttempts,
                   opLog, cbLog, startBudget, cancelFirst>>

\* TryOnConflict(nil): return nil
CallNil(p) ==
    /\ engine = "built"
    /\ ~InFlight(p)
    /\ pc' = [pc EXCEPT ![p] = "returnedNil"]
    /\ UNCHANGED <<calc, backoff, pressure, onRetryDelay, timerFor, engine, config, ctxDone, result, timer, curErr, errAttempts,
                   opLog, cbLog, startBudget, cancelFirst>>

\* Faulty variant: the invocation goes on with the Result of the one before.
Call_ReusesResult(p) ==
    /\ engine = "built"
    /\ ~InFlight(p)
    /\ pc' = [pc EXCEPT ![p] = "select"]
    /\ timer' = [timer EXCEPT ![p] = "armed"]
    /\ result' = [result EXCEPT ![ResultOf(p)].tryError = Nil]
    /\ opLog' = [opLog EXCEPT ![p] = <<>>]
    /\ cbLog' = [cbLog EXCEPT ![p] = <<>>]
    /\ startBudget' = [startBudget EXCEPT ![p] = BudgetMap(config)]
    /\ cancelFirst' = [cancelFirst EXCEPT ![p] = ctxDone]
    /\ timerFor' = [timerFor EXCEPT ![p] = NewTimer(config)]
    /\ UNCHANGED <<calc, backoff, pressure, onRetryDelay, engine, config, ctxDone, curErr, errAttempts>>

\* TryOnConflict(fn), fn # nil, up to the first select:
\* tr := time.NewTimer(r.config.delay); defer tr.Stop(); result := NewResult()
Call(p) ==
    /\ engine = "built"
    /\ ~InFlight(p)
    /\ pc' = [pc EXCEPT ![p] = "select"]
    /\ timer' = [timer EXCEPT ![p] = "armed"]
    /\ result' = [result EXCEPT ![ResultOf(p)] = NewResult]
    /\ opLog' = [opLog EXCEPT ![p] = <<>>]
    /\ cbLog' = [cbLog EXCEPT ![p] = <<>>]
    /\ startBudget' = [startBudget EXCEPT ![p] = BudgetMap(config)]
    /\ cancelFirst' = [cancelFirst EXCEPT ![p] = ctxDone]
    /\ timerFor' = [timerFor EXCEPT ![p] = NewTimer(config)]
    /\ UNCHANGED <<calc, backoff, pressure, onRetryDelay, engine, config, ctxDone, curErr, errAttempts>>

\* The runtime sends on tr.C when the timer's duration has elapsed.
TimerFire(p) ==
    /\ timer[p] = "armed"
    /\ timer' = [timer EXCEPT ![p] = "fired"]
    /\ UNCHANGED <<calc, backoff, pressure, onRetryDelay, timerFor, engine, config, ctxDone, pc, result, curErr, errAttempts,
                   opLog, cbLog, startBudget, cancelFirst>>

\* Faulty variant: the cancellation case returns without stopping the timer.
SelectCtx_LeavesTimer(p) ==
    /\ pc[p] = "select"
    /\ ctxDone
    /\ result' = [result EXCEPT ![ResultOf(p)] = Cancelled(@)]
    /\ pc' = [pc EXCEPT ![p] = "returned"]
    /\ UNCHANGED <<timer, timerFor>>
    /\ UNCHANGED <<calc, backoff, pressure, onRetryDelay, engine, config, ctxDone, curErr,
                   errAttempts, opLog, cbLog, startBudget, cancelFirst>>

\* select: case <-r.config.ctx.Done(): result.tryError = ctx.Err(); return result
SelectCtx(p) ==
    /\ pc[p] = "select"
    /\ ctxDone
    /\ result' = [result EXCEPT ![ResultOf(p)] = Cancelled(@)]
    /\ pc' = [pc EXCEPT ![p] = "returned"]
    /\ timer' = [timer EXCEPT ![p] = "stopped"]
    /\ timerFor' = [timerFor EXCEPT ![p] = None]
    /\ UNCHANGED <<calc, backoff, pressure, onRetryDelay, engine, config, ctxDone, curErr,
                   errAttempts, opLog, cbLog, startBudget, cancelFirst>>

\* select: case <-tr.C: the goroutine goes on to call fn()
SelectTimer(p) ==
    /\ pc[p] = "select"
    /\ timer[p] = "fired"
    /\ pc' = [pc EXCEPT ![p] = "exec"]
    /\ timer' = [timer EXCEPT ![p] = "drained"]
    /\ UNCHANGED <<calc, backoff, pressure, onRetryDelay, timerFor, engine, config, ctxDone, result, curErr, errAttempts,
                   opLog, cbLog, startBudget, cancelFirst>>

\* data, err := fn(); result.count++; then the success return, the detail
\* record, the predicate, the callback and the read of the per-error map.
\* The duration computed for the next wait (pressure, backoffFunc) decides
\* only when the timer fires, which TimerFire leaves open; it is passed to
\* the callback and stays in the local variable backoff.
Attempt(p, res) ==
    /\ pc[p] = "exec"
    /\ opLog' = [opLog EXCEPT ![p] = Append(@, res)]
    /\ LET r1 == IncCount(result[ResultOf(p)])
           r2 == RecordDetail(config, r1, res.err)
       IN  IF res.err = Nil
           THEN /\ result' = [result EXCEPT ![ResultOf(p)] = Succeed(r1, res.data)]
                /\ pc' = [pc EXCEPT ![p] = "returned"]
                /\ timer' = [timer EXCEPT ![p] = "stopped"]
                /\ timerFor' = [timerFor EXCEPT ![p] = None]
                /\ UNCHANGED <<cbLog, curErr, errAttempts, backoff, pressure, onRetryDelay>>
           ELSE IF ~ShouldRetry(config, res.err)
           THEN /\ result' = [result EXCEPT ![ResultOf(p)] = Rejected(r2, res.err)]
                /\ pc' = [pc EXCEPT ![p] = "returned"]
                /\ timer' = [timer EXCEPT ![p] = "stopped"]
                /\ timerFor' = [timerFor EXCEPT ![p] = None]
                /\ UNCHANGED <<cbLog, curErr, errAttempts, backoff, pressure, onRetryDelay>>
           ELSE /\ result' = [result EXCEPT ![ResultOf(p)] = r2]
                /\ \E delay \in Pressures(config, r2) :
                      \E d \in BackoffResults(config, delay) :
                         /\ pressure' = [pressure EXCEPT ![p] = Some(delay)]
                         /\ backoff' = [backoff EXCEPT ![p] = Some(Add64(d, config.delay))]
                         /\ onRetryDelay' = [onRetryDelay EXCEPT ![p] =
                                                 Some(Add64(d, config.delay))]
                /\ cbLog' = [cbLog EXCEPT ![p] = NotifyRetry(@, r2, res.err)]
                /\ curErr' = [curErr EXCEPT ![p] = res.err]
                /\ errAttempts' = [errAttempts EXCEPT ![p] = LookupBudget(config, res.err)]
                /\ pc' = [pc EXCEPT ![p] = "budget"]
                /\ UNCHANGED <<timer, timerFor>>
    /\ UNCHANGED <<calc, engine, config, ctxDone, startBudget, cancelFirst>>

\* Faulty variant: the loop goes on without resetting the timer.
Budget_NoReset(p) ==
    /\ pc[p] = "budget"
    /\ IF errAttempts[p] # None /\ ByErrorExceeded(errAttempts[p][1])
       THEN /\ result' = [result EXCEPT ![ResultOf(p)].tryError = ErrorRetryAttemptsByErrorExceeded]
            /\ pc' = [pc EXCEPT ![p] = "returned"]
            /\ timer' = [timer EXCEPT ![p] = "stopped"]
            /\ timerFor' = [timerFor EXCEPT ![p] = None]
            /\ UNCHANGED config
       ELSE /\ config' = IF errAttempts[p] # None
                         THEN StoreBudget(config, curErr[p], errAttempts[p][1])
                         ELSE config
            /\ IF AttemptsExceeded(result[ResultOf(p)], config)
               THEN /\ result' = [result EXCEPT ![ResultOf(p)].tryError = ErrorRetryAttemptsExceeded]
                    /\ pc' = [pc EXCEPT ![p] = "returned"]
                    /\ timer' = [timer EXCEPT ![p] = "stopped"]
                    /\ timerFor' = [timerFor EXCEPT ![p] = None]
               ELSE /\ UNCHANGED <<timer, timerFor>>
                    /\ pc' = [pc EXCEPT ![p] = "select"]
                    /\ UNCHANGED result
    /\ curErr' = [curErr EXCEPT ![p] = Nil]
    /\ errAttempts' = [errAttempts EXCEPT ![p] = None]
    /\ backoff' = [backoff EXCEPT ![p] = None]
    /\ pressure' = [pressure EXCEPT ![p] = None]
    /\ onRetryDelay' = [onRetryDelay EXCEPT ![p] = None]
    /\ UNCHANGED <<calc, engine, ctxDone, opLog, cbLog, startBudget, cancelFirst>>

\* Faulty variant: the global check is made before the per-error check.
Budget_GlobalFirst(p) ==
    /\ pc[p] = "budget"
    /\ IF AttemptsExceeded(result[ResultOf(p)], config)
       THEN /\ result' = [result EXCEPT ![ResultOf(p)].tryError = ErrorRetryAttemptsExceeded]
            /\ pc' = [pc EXCEPT ![p] = "returned"]
            /\ timer' = [timer EXCEPT ![p] = "stopped"]
            /\ timerFor' = [timerFor EXCEPT ![p] = None]
            /\ UNCHANGED config
       ELSE IF errAttempts[p] # None /\ ByErrorExceeded(errAttempts[p][1])
       THEN /\ result' = [result EXCEPT ![ResultOf(p)].tryError = ErrorRetryAttemptsByErrorExceeded]
            /\ pc' = [pc EXCEPT ![p] = "returned"]
            /\ timer' = [timer EXCEPT ![p] = "stopped"]
            /\ timerFor' = [timerFor EXCEPT ![p] = None]
            /\ UNCHANGED config
       ELSE /\ config' = IF errAttempts[p] # None
                         THEN StoreBudget(config, curErr[p], errAttempts[p][1])
                         ELSE config
            /\ timer' = [timer EXCEPT ![p] = "armed"]
            /\ timerFor' = [timerFor EXCEPT ![p] = Reset(config, backoff[p][1])]
            /\ pc' = [pc EXCEPT ![p] = "select"]
            /\ UNCHANGED result
    /\ curErr' = [curErr EXCEPT ![p] = Nil]
    /\ errAttempts' = [errAttempts EXCEPT ![p] = None]
    /\ backoff' = [backoff EXCEPT ![p] = None]
    /\ pressure' = [pressure EXCEPT ![p] = None]
    /\ onRetryDelay' = [onRetryDelay EXCEPT ![p] = None]
    /\ UNCHANGED <<calc, engine, ctxDone, opLog, cbLog, startBudget, cancelFirst>>

\* The per-error check and write, the global check, and tr.Reset(backoff).
Budget(p) ==
    /\ pc[p] = "budget"
    /\ IF errAttempts[p] # None /\ ByErrorExceeded(errAttempts[p][1])
       THEN /\ result' = [result EXCEPT ![ResultOf(p)].tryError = ErrorRetryAttemptsByErrorExceeded]
            /\ pc' = [pc EXCEPT ![p] = "returned"]
            /\ timer' = [timer EXCEPT ![p] = "stopped"]
            /\ timerFor' = [timerFor EXCEPT ![p] = None]
            /\ UNCHANGED config
       ELSE /\ config' = IF errAttempts[p] # None
                         THEN StoreBudget(config, curErr[p], errAttempts[p][1])
                         ELSE config
            /\ IF AttemptsExceeded(result[ResultOf(p)], config)
               THEN /\ result' = [result EXCEPT ![ResultOf(p)].tryError = ErrorRetryAttemptsExceeded]
                    /\ pc' = [pc EXCEPT ![p] = "returned"]
                    /\ timer' = [timer EXCEPT ![p] = "stopped"]
                    /\ timerFor' = [timerFor EXCEPT ![p] = None]
               ELSE /\ timer' = [timer EXCEPT ![p] = "armed"]
                    /\ timerFor' = [timerFor EXCEPT ![p] = Reset(config, backoff[p][1])]
                    /\ pc' = [pc EXCEPT ![p] = "select"]
                    /\ UNCHANGED result
    /\ curErr' = [curErr EXCEPT ![p] = Nil]
    /\ errAttempts' = [errAttempts EXCEPT ![p] = None]
    /\ backoff' = [backoff EXCEPT ![p] = None]
    /\ pressure' = [pressure EXCEPT ![p] = None]
    /\ onRetryDelay' = [onRetryDelay EXCEPT ![p] = None]
    /\ UNCHANGED <<calc, engine, ctxDone, opLog, cbLog, startBudget, cancelFirst>>

\* One engine used by one goroutine, one invocation after another.
Next ==
    \/ New
    \/ Cancel
    \/ \E p \in SeqProcs : CallNil(p)
    \/ \E p \in SeqProcs : Call(p)
    \/ \E p \in SeqProcs : TimerFire(p)
    \/ \E p \in SeqProcs : SelectCtx(p)
    \/ \E p \in SeqProcs : SelectTimer(p)
    \/ \E p \in SeqProcs, res \in OpResults : Attempt(p, res)
    \/ \E p \in SeqProcs : Budget(p)

Spec == Init /\ [][Next]_vars

\* What the runtime and the operation owe an invocation: an armed timer
\* fires, a goroutine in the select with a ready case goes on, a call of fn
\* returns, and a goroutine that is running keeps running.
Progress ==
    \A p \in SeqProcs :
        /\ WF_vars(TimerFire(p))
        /\ WF_vars(SelectTimer(p) \/ SelectCtx(p))
        /\ WF_vars(\E res \in OpResults : Attempt(p, res))
        /\ WF_vars(Budget(p))

SpecLive == Spec /\ Progress

\* ------------------------------------- several invocations on one engine
\* No invocation is running on the engine.
NoneInFlight == \A q \in Procs : ~InFlight(q)

\* A caller whose policy has no per-error entries (WithAttemptsByError not
\* called, or called with nil or an empty map).
InitNoEntries ==
    /\ Init
    /\ config.isNil \/ config.attemptsByError \in {None, Some(EmptyMap)}

\* The caller starts its invocations one after another: those of slot 1
\* first, then those of slot 2, each after the one before has returned.
InTurn(p) ==
    /\ NoneInFlight
    /\ IF p = 1 THEN pc[2] = "idle" ELSE pc[1] # "idle"

\* One engine, invocations in sequence; the Result of the last invocation of
\* slot 1 stays with the caller while those of slot 2 run.
NextSeq ==
    \/ New
    \/ Cancel
    \/ \E p \in Procs : InTurn(p) /\ CallNil(p)
    \/ \E p \in Procs : InTurn(p) /\ Call(p)
    \/ \E p \in Procs : TimerFire(p)
    \/ \E p \in Procs : SelectCtx(p)
    \/ \E p \in Procs : SelectTimer(p)
    \/ \E p \in Procs, res \in OpResults : Attempt(p, res)
    \/ \E p \in Procs : Budget(p)

SpecSeq == InitNoEntries /\ [][NextSeq]_vars

\* The policies of a caller that governs errors and reuses the engine.
GovernedConfigs ==
    [isNil           : {FALSE},
     ctx             : {Nil},
     callback        : {"user"},
     attempts        : 1..MaxAttempts,
     attemptsByError : {Some(m) : m \in CallerMaps \ {EmptyMap}},
     factor          : {defaultFactor},
     delay           : {defaultDelay},
     jitter          : {0},
     retryIfFunc     : {Some(Errs), Some({"E1"})},
     backoffFunc     : {Some("FixBackOff")},
     detail          : {FALSE}]

InitGoverned ==
    /\ config \in GovernedConfigs
    /\ NothingCalled

\* One engine with per-error entries and a token that is never cancelled,
\* invocations in sequence: those of slot 1, then those of slot 2.
NextReuse ==
    \/ New
    \/ \E p \in Procs : InTurn(p) /\ Call(p)
    \/ \E p \in Procs : TimerFire(p)
    \/ \E p \in Procs : SelectTimer(p)
    \/ \E p \in Procs, res \in OpResults : Attempt(p, res)
    \/ \E p \in Procs : Budget(p)

SpecReuse == InitGoverned /\ [][NextReuse]_vars

\* The per-error maps of the engine that two goroutines share.
SharedMaps ==
    UNION {[D -> 0..MaxParBudget] : D \in SUBSET Errs}

\* The policies of the engine that two goroutines share.
SharedConfigs ==
    [isNil           : {FALSE},
     ctx             : {Nil, "cancelable"},
     callback        : {"user"},
     attempts        : 1..MaxParAttempts,
     attemptsByError : {Some(m) : m \in SharedMaps},
     factor          : {defaultFactor},
     delay           : {defaultDelay},
     jitter          : {0},
     retryIfFunc     : {Some(Errs), Some({"E1"})},
     backoffFunc     : {Some("FixBackOff")},
     detail          : BOOLEAN]

InitPar ==
    /\ Init
    /\ config \in SharedConfigs

\* Goroutine p is about to execute r.config.attemptsByError[err] = errAttempts.
AboutToStore(p) ==
    /\ pc[p] = "budget"
    /\ errAttempts[p] # None
    /\ ~ByErrorExceeded(errAttempts[p][1])

\* The Go runtime finds the map being written by p while q reads or writes
\* it and ends the process ("fatal error: concurrent map read and map
\* write", "concurrent map writes"); the detection is best effort, so the
\* unsynchronised accesses may also go through (Attempt, Budget).
MapFault(p, q) ==
    /\ engine = "built"
    /\ p # q
    /\ AboutToStore(p)
    /\ pc[q] = "exec" \/ AboutToStore(q)
    /\ engine' = "crashed"
    /\ pc' = [x \in Procs |-> "crashed"]
    /\ timer' = [x \in Procs |-> "stopped"]
    /\ timerFor' = [x \in Procs |-> None]
    /\ UNCHANGED <<calc, backoff, pressure, onRetryDelay, config, ctxDone, result, curErr, errAttempts,
                   opLog, cbLog, startBudget, cancelFirst>>

\* One engine, one invocation by each of two goroutines, interleaved at the
\* select, the call of fn with the read of the map, and the write of the map.
NextPar ==
    \/ New
    \/ Cancel
    \/ \E p \in Procs : pc[p] = "idle" /\ Call(p)
    \/ \E p \in Procs : TimerFire(p)
    \/ \E p \in Procs : SelectCtx(p)
    \/ \E p \in Procs : SelectTimer(p)
    \/ \E p \in Procs, res \in OpResults : Attempt(p, res)
    \/ \E p \in Procs : Budget(p)
    \/ \E p \in Procs, q \in Procs : MapFault(p, q)

SpecPar == InitPar /\ [][NextPar]_vars

\* ------------------------------------------------------ DoWithDefault
InitDefault ==
    /\ Init
    /\ config.isNil

\* Faulty variant: the call goes on with the Result of the call before.
DoWithDefault_ReusesResult(p) ==
    /\ NoneInFlight
    /\ engine' = "built"
    /\ config' = isConfigValid([NewConfig EXCEPT !.isNil = TRUE])
    /\ pc' = [pc EXCEPT ![p] = "select"]
    /\ timer' = [timer EXCEPT ![p] = "armed"]
    /\ result' = [result EXCEPT ![ResultOf(p)].tryError = Nil]
    /\ opLog' = [opLog EXCEPT ![p] = <<>>]
    /\ cbLog' = [cbLog EXCEPT ![p] = <<>>]
    /\ startBudget' = [startBudget EXCEPT ![p] = EmptyMap]
    /\ cancelFirst' = [cancelFirst EXCEPT ![p] = FALSE]
    /\ timerFor' = [timerFor EXCEPT ![p] = NewTimer(config')]
    /\ UNCHANGED <<calc, backoff, pressure, onRetryDelay, ctxDone, curErr, errAttempts>>

\* DoWithDefault(fn): New(nil).TryOnConflict(fn), a new engine with the
\* default policy for every call, up to the first select.
DoWithDefault(p) ==
    /\ NoneInFlight
    /\ engine' = "built"
    /\ config' = isConfigValid([NewConfig EXCEPT !.isNil = TRUE])
    /\ pc' = [pc EXCEPT ![p] = "select"]
    /\ timer' = [timer EXCEPT ![p] = "armed"]
    /\ result' = [result EXCEPT ![ResultOf(p)] = NewResult]
    /\ opLog' = [opLog EXCEPT ![p] = <<>>]
    /\ cbLog' = [cbLog EXCEPT ![p] = <<>>]
    /\ startBudget' = [startBudget EXCEPT ![p] = EmptyMap]
    /\ cancelFirst' = [cancelFirst EXCEPT ![p] = FALSE]
    /\ timerFor' = [timerFor EXCEPT ![p] = NewTimer(config')]
    /\ UNCHANGED <<calc, backoff, pressure, onRetryDelay, ctxDone, curErr, errAttempts>>

\* Calls of DoWithDefault one after another; the default context is
\* context.Background(), which is never done.
NextDefault ==
    \/ \E p \in Procs : DoWithDefault(p)
    \/ \E p \in Procs : TimerFire(p)
    \/ \E p \in Procs : SelectTimer(p)
    \/ \E p \in Procs, res \in OpResults : Attempt(p, res)
    \/ \E p \in Procs : Budget(p)

SpecDefault == InitDefault /\ [][NextDefault]_vars


\* ------------------------------------------------------ New alone
InitAny ==
    /\ config \in AnyConfigs
    /\ NothingCalled

\* A caller who builds an engine from its configuration.
NextConfig == New

SpecConfig == InitAny /\ [][NextConfig]_vars

\* ------------------------------------------- calls of the backoff functions
InitBackoff ==
    /\ Init
    /\ config.isNil

\* The arguments a caller passes as an interval.
Intervals ==
    {Int64(j) : j \in (-1)..MaxInterval} \cup {Pow2(e) : e \in LargeExponents}

\* The arguments a caller passes to ExponentialBackoff.
Powers == {Int64(j) : j \in (-1)..MaxPower}

\* The lists a caller passes to CombineBackoffs.
BackoffLists == UNION {[1..k -> BackoffFuncs] : k \in 0..MaxCombine}

\* What the functions of a list can return for n, one result for each.
PartsOf(backoffs, n) ==
    {parts \in [1..Len(backoffs) ->
                    UNION {ApplyBackoff(backoffs[i], n) : i \in 1..Len(backoffs)}] :
        \A i \in 1..Len(backoffs) : parts[i] \in ApplyBackoff(backoffs[i], n)}

\* The record of a call: the function, its arguments, the interval drawn
\* and the results of the constituents where there are any, and the result.
Called(fn, backoffs, n, interval, parts, out) ==
    Some([fn |-> fn, backoffs |-> backoffs, n |-> n, interval |-> interval,
          parts |-> parts, out |-> out])

CallFixedBackoff ==
    /\ calc = None
    /\ \E n \in Intervals :
          calc' = Called("FixedBackoff", <<>>, n, n, <<>>, FixedBackoff(n))
    /\ UNCHANGED <<backoff, pressure, onRetryDelay, timerFor, engine, config, ctxDone, pc, result, timer,
                   curErr,
                   errAttempts, opLog, cbLog, startBudget, cancelFirst>>

CallRandomBackoff ==
    /\ calc = None
    /\ \E n \in Intervals :
          \E k \in (IF Positive(n) THEN Int63n(n) ELSE {n}) :
              calc' = Called("RandomBackoff", <<>>, n, k, <<>>, RandomBackoff(n, k))
    /\ UNCHANGED <<backoff, pressure, onRetryDelay, timerFor, engine, config, ctxDone, pc, result, timer,
                   curErr,
                   errAttempts, opLog, cbLog, startBudget, cancelFirst>>

CallExponentialBackoff ==
    /\ calc = None
    /\ \E n \in Powers :
          calc' = Called("ExponentialBackoff", <<>>, n, n, <<>>, ExponentialBackoff(n))
    /\ UNCHANGED <<backoff, pressure, onRetryDelay, timerFor, engine, config, ctxDone, pc, result, timer,
                   curErr,
                   errAttempts, opLog, cbLog, startBudget, cancelFirst>>

CallCombineBackoffs ==
    /\ calc = None
    /\ \E backoffs \in BackoffLists : \E n \in Intervals :
          \E parts \in PartsOf(backoffs, n) :
              calc' = Called("CombineBackoffs", backoffs, n, n, parts,
                             CombineBackoffs(backoffs, n, parts))
    /\ UNCHANGED <<backoff, pressure, onRetryDelay, timerFor, engine, config, ctxDone, pc, result, timer,
                   curErr,
                   errAttempts, opLog, cbLog, startBudget, cancelFirst>>

\* A caller of the package's backoff functions; the functions keep nothing
\* from one call to the next, so a behaviour is one call.
NextBackoff ==
    \/ CallFixedBackoff
    \/ CallRandomBackoff
    \/ CallExponentialBackoff
    \/ CallCombineBackoffs

SpecBackoff == InitBackoff /\ [][NextBackoff]_vars

\* ------------------------------------------------------ the waits
\* Policies that differ in what the wait is computed from: FixConfig(), and
\* FixConfig().WithAttempts(a).WithFactor(f).WithJitter(j).WithInitDelay(d)
\* .WithBackOffFunc(b).
WaitConfigs ==
    {[FixConfig EXCEPT !.attempts = a, !.factor = f, !.jitter = j,
                       !.delay = d, !.backoffFunc = Some(b)] :
        a \in (1..MaxAttempts) \cup {defaultAttempts},
        f \in 0..MaxFactor,
        j \in {0, defaultJitter},
        d \in {Int64(1), defaultDelay},
        b \in {"FixBackOff", "RandomBackOff", "ExponentialBackOff",
                "defaultBackoffFunc"}}

InitWait ==
    /\ config \in WaitConfigs
    /\ NothingCalled

\* One goroutine calls TryOnConflict on an engine whose token is never
\* cancelled.
NextWait ==
    \/ New
    \/ \E p \in SeqProcs : Call(p)
    \/ \E p \in SeqProcs : TimerFire(p)
    \/ \E p \in SeqProcs : SelectTimer(p)
    \/ \E p \in SeqProcs, res \in OpResults : Attempt(p, res)
    \/ \E p \in SeqProcs : Budget(p)

SpecWait == InitWait /\ [][NextWait]_vars

\* ------------------------------------------------- vocabulary of the claims
\* TryOnConflict has returned a *Result to goroutine p.
Returned(p) == pc[p] = "returned"

\* The histories of p are those of an invocation that made a Result
\* (a call with a nil fn returns nil and leaves them as they were).
HasOutcome(p) == pc[p] # "returnedNil"

\* Every call of fn made so far in the invocation failed.
AllFail(log) == \A k \in 1..Len(log) : log[k].err # Nil

\* Every call of fn made so far in the invocation succeeded.
AllOk(log) == \A k \in 1..Len(log) : log[k].err = Nil

\* Every call of fn made so far in the invocation failed with e.
AllFailWith(log, e) == \A k \in 1..Len(log) : log[k].err = e

\* The predicate of the engine accepts e.
Accepts(e) == e \in config.retryIfFunc[1]

\* The invocation did not end in the select's cancellation case.
NotCancelled(p) == result[p].tryError # ContextCanceled

\* C1: an operation that fails on every call, under global budget N, an
\* always-true predicate, an empty per-error map and no cancellation, is
\* called exactly N times and the Outcome has Count = N and
\* TryError = ErrorRetryAttemptsExceeded.
C1_AlwaysFailUsesGlobalBudget ==
    \A p \in Procs :
        ( /\ Returned(p)
          /\ AllFail(opLog[p])
          /\ config.retryIfFunc = Some(Errs)
          /\ startBudget[p] = EmptyMap
          /\ NotCancelled(p) )
        => /\ Len(opLog[p]) = config.attempts
           /\ result[p].count = config.attempts
           /\ result[p].tryError = ErrorRetryAttemptsExceeded

C1_Witness ==
    \E p \in Procs :
        /\ Returned(p)
        /\ AllFail(opLog[p])
        /\ config.retryIfFunc = Some(Errs)
        /\ startBudget[p] = EmptyMap
        /\ config.attempts = MaxAttempts
        /\ result[p].count = MaxAttempts
        /\ result[p].tryError = ErrorRetryAttemptsExceeded

\* C2: with a remaining per-error budget K for E at the start of the
\* invocation (K is the configured budget on a fresh policy), a global budget
\* N > K, an always-true predicate and no cancellation, an operation that
\* always fails with E ends with ErrorRetryAttemptsByErrorExceeded at
\* Count = K + 1, also when N = K + 1.
C2_PerErrorBudgetEndsAtKPlus1 ==
    \A p \in Procs : \A e \in Errs :
        ( /\ Returned(p)
          /\ e \in DOMAIN startBudget[p]
          /\ config.attempts > startBudget[p][e]
          /\ config.retryIfFunc = Some(Errs)
          /\ AllFailWith(opLog[p], e)
          /\ NotCancelled(p) )
        => /\ result[p].tryError = ErrorRetryAttemptsByErrorExceeded
           /\ result[p].count = startBudget[p][e] + 1
           /\ Len(opLog[p]) = startBudget[p][e] + 1

C2_Witness ==
    \E p \in Procs : \E e \in Errs :
        /\ Returned(p)
        /\ e \in DOMAIN startBudget[p]
        /\ startBudget[p][e] = MaxBudget
        /\ config.attempts = MaxBudget + 1
        /\ config.retryIfFunc = Some(Errs)
        /\ AllFailWith(opLog[p], e)
        /\ result[p].tryError = ErrorRetryAttemptsByErrorExceeded
        /\ result[p].count = MaxBudget + 1

\* C3: a failing attempt whose error the predicate rejects is the last
\* attempt of the invocation, which has returned with TryError = ErrorRetryIf
\* whatever the budgets; when it is the first attempt, Count = 1.
C3_RejectedErrorStops ==
    \A p \in Procs : \A k \in 1..Len(opLog[p]) :
        (HasOutcome(p) /\ opLog[p][k].err # Nil /\ ~Accepts(opLog[p][k].err))
        => /\ k = Len(opLog[p])
           /\ Returned(p)
           /\ result[p].tryError = ErrorRetryIf
           /\ result[p].count = k

C3_Witness ==
    \E p \in Procs :
        /\ Returned(p)
        /\ Len(opLog[p]) = 1
        /\ opLog[p][1].err # Nil
        /\ ~Accepts(opLog[p][1].err)
        /\ opLog[p][1].err \in DOMAIN startBudget[p]
        /\ startBudget[p][opLog[p][1].err] = 0
        /\ config.attempts = 1
        /\ result[p].tryError = ErrorRetryIf
        /\ result[p].count = 1

\* C4: when the token has fired before the timer of the first wait has
\* expired, fn is never called and the Outcome has Count = 0 and the token's
\* reason as TryError.
C4_CancelBeforeFirstDelayMakesNoAttempt ==
    \A p \in Procs :
        (HasOutcome(p) /\ cancelFirst[p])
        => /\ pc[p] \notin {"exec", "budget"}
           /\ opLog[p] = <<>>
           /\ Returned(p) => /\ result[p].count = 0
                             /\ result[p].tryError = ContextCanceled

\* C5 as stated: an operation that succeeds on every call yields Count = 1
\* and success under every policy and cancellation token.
C5_AlwaysOkGivesOneAttempt ==
    \A p \in Procs :
        (Returned(p) /\ AllOk(opLog[p]))
        => /\ result[p].count = 1
           /\ IsSuccess(result[p])

\* C5 amended: an operation that succeeds on every call yields Count = 1,
\* success and the payload of its one call, unless the first select takes
\* the cancellation case: then fn was never called, Count = 0 and TryError is
\* the token's reason.
C5_AlwaysOkOneAttemptOrCancelled ==
    \A p \in Procs :
        (Returned(p) /\ AllOk(opLog[p]))
        => \/ /\ Len(opLog[p]) = 1
              /\ result[p].count = 1
              /\ IsSuccess(result[p])
              /\ result[p].data = opLog[p][1].data
           \/ /\ opLog[p] = <<>>
              /\ ctxDone
              /\ result[p].count = 0
              /\ result[p].tryError = ContextCanceled

C5_Witness ==
    \E p \in Procs :
        /\ Returned(p)
        /\ Len(opLog[p]) = 1
        /\ opLog[p][1].err = Nil
        /\ ctxDone
        /\ config.attempts = 1
        /\ config.retryIfFunc = Some({})
        /\ result[p].count = 1
        /\ IsSuccess(result[p])

\* The OnRetry call of the invocation made for attempt k, if any.
Notified(p, k) == \E j \in 1..Len(cbLog[p]) : cbLog[p][j].count = k

\* C6 as stated: OnRetry is never called for the attempt on which the
\* invocation ends (success, predicate rejected, per-error budget exhausted,
\* global budget exhausted).
C6_NoCallbackOnTerminalAttempt ==
    \A p \in Procs :
        ( /\ Returned(p)
          /\ result[p].tryError \in {Nil, ErrorRetryIf, ErrorRetryAttemptsExceeded,
                                     ErrorRetryAttemptsByErrorExceeded} )
        => ~Notified(p, result[p].count)

\* C6 amended: OnRetry is called for exactly the failing attempts whose
\* error the predicate accepts, the attempt that then ends the invocation by
\* per-error or global exhaustion included; it is never called for a
\* successful attempt nor for one whose error the predicate rejects.
C6_CallbackOnEveryAcceptedFailure ==
    \A p \in Procs :
        HasOutcome(p) =>
            /\ \A k \in 1..Len(opLog[p]) :
                    Notified(p, k) <=> (opLog[p][k].err # Nil /\ Accepts(opLog[p][k].err))
            /\ (Returned(p) /\ result[p].tryError \in {ErrorRetryAttemptsExceeded,
                                                      ErrorRetryAttemptsByErrorExceeded})
                    => Notified(p, result[p].count)
            /\ (Returned(p) /\ result[p].tryError \in {Nil, ErrorRetryIf})
                    => ~Notified(p, result[p].count)

C6_Witness ==
    \E p \in Procs :
        /\ Returned(p)
        /\ result[p].tryError = ErrorRetryAttemptsByErrorExceeded
        /\ result[p].count = 2
        /\ Notified(p, 1)
        /\ Notified(p, 2)

\* C7: on an engine built by New the global budget is at least 1 and no
\* invocation's attempt count, nor its number of calls of fn, exceeds it.
C7_CountWithinGlobalBudget ==
    engine = "built" =>
        /\ config.attempts >= 1
        /\ \A p \in Procs :
                /\ result[p].count <= config.attempts
                /\ Len(opLog[p]) <= config.attempts

C7_Witness ==
    \E p \in Procs :
        /\ engine = "built"
        /\ pc[p] = "budget"
        /\ result[p].count = config.attempts
        /\ config.attempts = defaultAttempts
        /\ errAttempts[p] # None

\* C8: with detail on, the length of ExecErrors of a returned Outcome is
\* Count - 1 after a success and Count otherwise.
C8_DetailLengthMatchesCount ==
    \A p \in Procs :
        (Returned(p) /\ config.detail)
        => Len(result[p].execErrors)
             = result[p].count - (IF result[p].tryError = Nil THEN 1 ELSE 0)

C8_Witness ==
    \E p \in Procs :
        /\ Returned(p)
        /\ config.detail
        /\ result[p].tryError = Nil
        /\ result[p].count = MaxAttempts
        /\ Len(result[p].execErrors) = MaxAttempts - 1

\* The errors of the failing calls of fn, in the order of the calls.
FailedErrors(log) ==
    LET failed == SelectSeq(log, LAMBDA x : x.err # Nil)
    IN  [k \in 1..Len(failed) |-> failed[k].err]

\* C9: with detail on, ExecErrors is the sequence of the errors the failing
\* attempts returned, in order, the error of a terminal failure included;
\* FirstExecError is its first element and LastExecError its last.
C9_DetailIsFailureSequence ==
    \A p \in Procs :
        (HasOutcome(p) /\ config.detail)
        => LET errs == FailedErrors(opLog[p])
           IN  /\ result[p].execErrors = errs
               /\ Len(errs) > 0 =>
                    /\ FirstExecError(result[p]) = errs[1]
                    /\ LastExecError(result[p]) = errs[Len(errs)]

C9_Witness ==
    \E p \in Procs :
        /\ Returned(p)
        /\ config.detail
        /\ result[p].tryError = ErrorRetryIf
        /\ result[p].execErrors = <<"E1", "E2">>
        /\ FirstExecError(result[p]) = "E1"
        /\ LastExecError(result[p]) = "E2"

\* The last call of fn in the invocation returned no error.
LastAttemptOk(p) == Len(opLog[p]) > 0 /\ opLog[p][Len(opLog[p])].err = Nil

\* C10: for a returned Outcome, IsSuccess holds exactly when TryError is nil,
\* which is exactly when the last attempt returned no error; Data is that
\* attempt's payload then, and nil in every failure or cancellation.
C10_SuccessIffLastAttemptOk ==
    \A p \in Procs :
        Returned(p) =>
            /\ IsSuccess(result[p]) <=> result[p].tryError = Nil
            /\ result[p].tryError = Nil <=> LastAttemptOk(p)
            /\ LastAttemptOk(p) => result[p].data = opLog[p][Len(opLog[p])].data
            /\ ~LastAttemptOk(p) => result[p].data = Nil

C10_Witness ==
    \E p \in Procs :
        /\ Returned(p)
        /\ Len(opLog[p]) = 2
        /\ opLog[p][1].data = "junk"
        /\ opLog[p][2].err = Nil
        /\ opLog[p][2].data = Nil
        /\ IsSuccess(result[p])
        /\ result[p].data = Nil

\* The terminal errors TryOnConflict sets itself.
TerminalErrors ==
    {Nil, ErrorRetryIf, ErrorRetryAttemptsExceeded,
     ErrorRetryAttemptsByErrorExceeded, ContextCanceled}

\* C11: the TryError of a returned Outcome is nil, ErrorRetryIf,
\* ErrorRetryAttemptsExceeded, ErrorRetryAttemptsByErrorExceeded or the
\* token's reason; it is never an error the operation returned.
C11_TryErrorIsTerminalKind ==
    \A p \in Procs :
        Returned(p) =>
            /\ result[p].tryError \in TerminalErrors
            /\ \A k \in 1..Len(opLog[p]) :
                    opLog[p][k].err # Nil => result[p].tryError # opLog[p][k].err

C11_Witness ==
    \E p \in Procs :
        /\ Returned(p)
        /\ config.detail
        /\ Len(opLog[p]) = 1
        /\ opLog[p][1].err = "E2"
        /\ result[p].execErrors = <<"E2">>
        /\ result[p].tryError = ErrorRetryIf

\* C12: an invocation that ends in the select's cancellation case after k
\* failed attempts returns Count = k, the token's own error as TryError, a
\* nil Data and, with detail on, the k errors recorded so far.
C12_CancelKeepsCountAndErrors ==
    \A p \in Procs :
        (Returned(p) /\ result[p].tryError = ContextCanceled)
        => /\ ctxDone
           /\ AllFail(opLog[p])
           /\ result[p].count = Len(opLog[p])
           /\ result[p].data = Nil
           /\ result[p].execErrors =
                IF config.detail THEN FailedErrors(opLog[p]) ELSE <<>>

C12_Witness ==
    \E p \in Procs :
        /\ Returned(p)
        /\ result[p].tryError = ContextCanceled
        /\ config.detail
        /\ result[p].count = 2
        /\ result[p].execErrors = <<"E2", "E1">>

\* C13: once the token has fired, the only step an invocation waiting in the
\* select takes is the return with the cancellation, also when the timer has
\* expired: no attempt starts after the token fired.
C13_SelectAfterCancelOnlyCancels ==
    [][\A p \in Procs :
            (pc[p] = "select" /\ ctxDone) => pc'[p] \in {"select", "returned"}]_vars

\* The terminal error of a failing attempt under a global budget of 1: the
\* checks in the order the loop makes them.
FirstFailureVerdict(p, e) ==
    IF ~Accepts(e) THEN ErrorRetryIf
    ELSE IF e \in DOMAIN startBudget[p] /\ startBudget[p][e] = 0
         THEN ErrorRetryAttemptsByErrorExceeded
         ELSE ErrorRetryAttemptsExceeded

\* C14 as stated: with a global budget of 1 any failure of the one attempt
\* ends the invocation with ErrorRetryAttemptsExceeded.
C14_BudgetOneFailureIsGlobalExceeded ==
    \A p \in Procs :
        ( /\ Returned(p)
          /\ config.attempts = 1
          /\ Len(opLog[p]) = 1
          /\ opLog[p][1].err # Nil )
        => result[p].tryError = ErrorRetryAttemptsExceeded

\* C14 amended: with a global budget of 1 the operation is called once
\* (never, when the first select takes the cancellation case) and a failure
\* of that attempt ends the invocation at once: with ErrorRetryIf when the
\* predicate rejects the error, with ErrorRetryAttemptsByErrorExceeded when
\* the error's remaining per-error count is 0, with
\* ErrorRetryAttemptsExceeded otherwise.
C14_BudgetOneStopsAtFirstFailure ==
    \A p \in Procs :
        (engine = "built" /\ config.attempts = 1 /\ HasOutcome(p))
        => /\ Len(opLog[p]) <= 1
           /\ (Returned(p) /\ NotCancelled(p)) =>
                    Len(opLog[p]) = 1 /\ result[p].count = 1
           /\ (Len(opLog[p]) = 1 /\ opLog[p][1].err # Nil /\ pc[p] # "budget") =>
                    /\ Returned(p)
                    /\ result[p].tryError = FirstFailureVerdict(p, opLog[p][1].err)

C14_Witness ==
    \E p \in Procs :
        /\ Returned(p)
        /\ config.attempts = 1
        /\ opLog[p] = <<[data |-> Nil, err |-> "E1"]>>
        /\ startBudget[p] = [x \in {"E1"} |-> 1]
        /\ result[p].count = 1
        /\ result[p].tryError = ErrorRetryAttemptsExceeded

\* The number of calls of fn before the k-th that failed with e.
FailsBefore(log, e, k) == Cardinality({j \in 1..(k - 1) : log[j].err = e})

\* C15: a failing attempt with an accepted error E whose per-error entry has
\* no remaining count (the entry at the start less the earlier failures with
\* E) ends the invocation with ErrorRetryAttemptsByErrorExceeded, also when
\* Count has reached the global budget on that attempt.
C15_PerErrorCheckComesFirst ==
    \A p \in Procs : \A k \in 1..Len(opLog[p]) :
        LET e == opLog[p][k].err
        IN  ( /\ HasOutcome(p)
              /\ e # Nil
              /\ Accepts(e)
              /\ e \in DOMAIN startBudget[p]
              /\ startBudget[p][e] <= FailsBefore(opLog[p], e, k)
              /\ ~(k = Len(opLog[p]) /\ pc[p] = "budget") )
            => /\ k = Len(opLog[p])
               /\ Returned(p)
               /\ result[p].tryError = ErrorRetryAttemptsByErrorExceeded
               /\ result[p].count = k

C15_Witness ==
    \E p \in Procs :
        /\ Returned(p)
        /\ result[p].tryError = ErrorRetryAttemptsByErrorExceeded
        /\ result[p].count = 2
        /\ config.attempts = 2
        /\ AllFailWith(opLog[p], "E2")
        /\ startBudget[p] = [x \in {"E2"} |-> 1]

\* The calls of fn were f failures with e followed by one success.
FailsThenOk(log, e) ==
    /\ Len(log) >= 1
    /\ log[Len(log)].err = Nil
    /\ \A k \in 1..(Len(log) - 1) : log[k].err = e

\* C16: with a remaining per-error budget K for E at the start (the
\* configured budget on a fresh policy), a global budget N and a predicate
\* that accepts E, f failures with E (f <= K, f < N) do not end the
\* invocation, and the success that follows gives Count = f + 1, the payload
\* as Data and, with detail on, f copies of E as ExecErrors.
C16_FailuresWithinBudgetThenSuccess ==
    \A p \in Procs : \A e \in Errs :
        ( /\ engine = "built"
          /\ HasOutcome(p)
          /\ Accepts(e)
          /\ e \in DOMAIN startBudget[p] )
        => /\ ( /\ Returned(p)
                /\ Len(opLog[p]) >= 1
                /\ AllFailWith(opLog[p], e)
                /\ Len(opLog[p]) <= startBudget[p][e]
                /\ Len(opLog[p]) < config.attempts )
              => result[p].tryError = ContextCanceled
           /\ ( /\ FailsThenOk(opLog[p], e)
                /\ Len(opLog[p]) - 1 <= startBudget[p][e]
                /\ Len(opLog[p]) - 1 < config.attempts )
              => /\ Returned(p)
                 /\ IsSuccess(result[p])
                 /\ result[p].count = Len(opLog[p])
                 /\ result[p].data = opLog[p][Len(opLog[p])].data
                 /\ config.detail =>
                        result[p].execErrors = [k \in 1..(Len(opLog[p]) - 1) |-> e]

C16_Witness ==
    \E p \in Procs :
        /\ Returned(p)
        /\ config.detail
        /\ startBudget[p] = [x \in {"E1"} |-> MaxBudget]
        /\ FailsThenOk(opLog[p], "E1")
        /\ Len(opLog[p]) = MaxBudget + 1
        /\ IsSuccess(result[p])
        /\ result[p].data = "lee"
        /\ result[p].count = MaxBudget + 1
        /\ Len(result[p].execErrors) = MaxBudget

\* The Outcome of p is the one its own calls of fn give under a policy
\* without per-error entries: every call but the last was an accepted
\* failure, and the last decides how the invocation ended.
OwnOutcome(p) ==
    LET log  == opLog[p]
        n    == Len(log)
        r    == result[p]
    IN  /\ r.count = n
        /\ n <= config.attempts
        /\ r.execErrors = IF config.detail THEN FailedErrors(log) ELSE <<>>
        /\ \A k \in 1..(n - 1) : log[k].err # Nil /\ Accepts(log[k].err)
        /\ Returned(p) =>
            \/ /\ r.tryError = ContextCanceled
               /\ ctxDone /\ AllFail(log) /\ n < config.attempts /\ r.data = Nil
            \/ /\ r.tryError = Nil
               /\ LastAttemptOk(p) /\ r.data = log[n].data
            \/ /\ r.tryError = ErrorRetryIf
               /\ n >= 1 /\ log[n].err # Nil /\ ~Accepts(log[n].err) /\ r.data = Nil
            \/ /\ r.tryError = ErrorRetryAttemptsExceeded
               /\ n = config.attempts /\ AllFail(log) /\ Accepts(log[n].err)
               /\ r.data = Nil

\* C17: of the invocations run one after another on an engine whose policy
\* has no per-error entries, each starts from a new Result (count 0, no
\* errors), ends with the Outcome its own calls of fn give (Count = N and
\* ErrorRetryAttemptsExceeded when all fail and are accepted), and leaves
\* the Outcome returned before it as it was.
C17_SequentialInvocationsAreFresh ==
    [][\A p \in Procs :
          /\ (~InFlight(p) /\ pc'[p] = "select") => result'[p] = NewResult
          /\ (engine' = "built" /\ HasOutcome(p)') => OwnOutcome(p)'
          /\ (Returned(p) /\ pc'[p] = pc[p]) => result'[p] = result[p]]_vars

C17_Witness ==
    /\ Returned(1)
    /\ result[1] = [count |-> 2, data |-> "lee", tryError |-> Nil,
                    execErrors |-> <<"E1">>]
    /\ Returned(2)
    /\ config.attempts = MaxAttempts
    /\ result[2].count = MaxAttempts
    /\ result[2].tryError = ErrorRetryAttemptsExceeded
    /\ Len(result[2].execErrors) = MaxAttempts

C19_StoreWritesStaleRead ==
    [][\A p \in Procs :
          (AboutToStore(p) /\ pc'[p] # pc[p] /\ engine' = "built")
          => BudgetMap(config')[curErr[p]] = errAttempts[p][1] - 1]_vars

C19_Witness ==
    /\ config.attempts = 2
    /\ BudgetMap(config) = [x \in {"E1"} |-> 0]
    /\ \A p \in Procs :
          /\ Returned(p)
          /\ startBudget[p] = [x \in {"E1"} |-> 1]
          /\ Len(opLog[p]) = 2
          /\ AllFailWith(opLog[p], "E1")
          /\ result[p].count = 2
          /\ result[p].tryError = ErrorRetryAttemptsByErrorExceeded

\* C20: two calls of DoWithDefault with the same operation, which succeeds
\* on every call with the same payload, return Outcomes equal in Count (1),
\* Data (the payload), TryError (nil) and ExecErrors (none).
C20_DoWithDefaultTwiceGivesEqualOutcomes ==
    \A res \in OkResults :
        ( /\ Returned(1)
          /\ Returned(2)
          /\ opLog[1] = <<res>>
          /\ opLog[2] = <<res>> )
        => /\ result[1] = result[2]
           /\ result[1] = [count |-> 1, data |-> res.data, tryError |-> Nil,
                           execErrors |-> <<>>]

C20_Witness ==
    /\ Returned(1)
    /\ Returned(2)
    /\ opLog[1] = <<[data |-> "lee", err |-> Nil]>>
    /\ opLog[2] = opLog[1]
    /\ result[2].data = "lee"
    /\ result[2].count = 1
    /\ result[1] = result[2]

\* C21: with detail off, ExecErrors is empty whatever the number of failed
\* attempts, and FirstExecError and LastExecError return ErrorExecErrNotFound.
C21_NoDetailNoErrors ==
    \A p \in Procs :
        (engine = "built" /\ HasOutcome(p) /\ ~config.detail)
        => /\ result[p].execErrors = <<>>
           /\ FirstExecError(result[p]) = ErrorExecErrNotFound
           /\ LastExecError(result[p]) = ErrorExecErrNotFound

C21_Witness ==
    \E p \in Procs :
        /\ Returned(p)
        /\ ~config.detail
        /\ result[p].count = MaxAttempts
        /\ AllFail(opLog[p])
        /\ Len(opLog[p]) = MaxAttempts
        /\ result[p].execErrors = <<>>
        /\ LastExecError(result[p]) = ErrorExecErrNotFound

\* The indexes a caller passes to ExecErrorByIndex.
Indexes == (-1)..(MaxAttempts + 1)

\* C22: ExecErrorByIndex(idx) returns the recorded error at idx when
\* 0 <= idx < len(ExecErrors) and ErrorExecErrByIndexOutOfBound for every
\* other idx, a negative one included, and never fails.
C22_ExecErrorByIndexIsTotal ==
    \A p \in Procs : \A idx \in Indexes :
        Returned(p) =>
            ExecErrorByIndex(result[p], idx) =
                IF 0 <= idx /\ idx < Len(result[p].execErrors)
                THEN result[p].execErrors[idx + 1]
                ELSE ErrorExecErrByIndexOutOfBound

\* C24: TryOnConflict(nil) returns nil at once: the policy with its
\* per-error map, the timers, the Results and the records of the calls of
\* fn and of OnRetry are as before, and no invocation is in flight.
C24_NilOperationChangesNothing ==
    [][\A p \in Procs :
          (pc[p] # "returnedNil" /\ pc'[p] = "returnedNil")
          => /\ config' = config
             /\ timer' = timer
             /\ result' = result
             /\ opLog' = opLog
             /\ cbLog' = cbLog
             /\ ~InFlight(p)']_vars

C24_Witness ==
    \E p \in Procs :
        /\ pc[p] = "returnedNil"
        /\ timer[p] = "none"
        /\ opLog[p] = <<>>
        /\ cbLog[p] = <<>>
        /\ config.callback = "user"
        /\ BudgetMap(config) = [x \in {"E1"} |-> 1]

\* C29: an attempt that returns no error while the token has fired ends the
\* invocation in success (TryError nil, the payload as Data); that step
\* calls neither the callback nor writes the policy, and records no error.
C29_SuccessBeatsCancellation ==
    [][\A p \in Procs :
          ( /\ pc[p] = "exec"
            /\ ctxDone
            /\ Len(opLog'[p]) = Len(opLog[p]) + 1
            /\ opLog'[p][Len(opLog'[p])].err = Nil )
          => /\ pc'[p] = "returned"
             /\ result'[p].tryError = Nil
             /\ IsSuccess(result'[p])
             /\ result'[p].data = opLog'[p][Len(opLog'[p])].data
             /\ result'[p].count = result[p].count + 1
             /\ result'[p].execErrors = result[p].execErrors
             /\ cbLog' = cbLog
             /\ config' = config]_vars

C29_Witness ==
    \E p \in Procs :
        /\ Returned(p)
        /\ ctxDone
        /\ ~cancelFirst[p]
        /\ IsSuccess(result[p])
        /\ result[p].data = "lee"
        /\ result[p].count = 2
        /\ Len(cbLog[p]) = 1

LastCall(fn) == calc # None /\ calc[1].fn = fn

\* C26: for n >= 1 ExponentialBackoff(n) is 2^min(n,62) x 100ms computed
\* without overflow, so it is strictly positive and not below the result
\* for n - 1; for n <= 0 it is the default delay.
C26_ExponentialBackoffPositiveMonotone ==
    LastCall("ExponentialBackoff") =>
        LET n   == calc[1].n
            out == calc[1].out
        IN  IF Positive(n)
            THEN /\ Positive(out)
                 /\ Positive(Add64(n, Int64(-1))) =>
                        ~Less(out, ExponentialBackoff(Add64(n, Int64(-1))))
            ELSE out = defaultDelay

\* The largest interval whose product with 100ms is below 2^63 ns:
\* 92233720368.
LargestExactInterval ==
    Add64(Mul64(Int64(92233), Int64(Millisecond)), Int64(720368))

\* C27: the function CombineBackoffs returns yields the sum of the
\* constituents' results when that is positive and the default delay when
\* not, so always a strictly positive duration; for the empty list it is
\* FixedBackoff.
C27_CombineBackoffsAlwaysPositive ==
    LastCall("CombineBackoffs") =>
        LET c == calc[1]
        IN  /\ Positive(c.out)
            /\ Len(c.backoffs) = 0 => c.out = FixedBackoff(c.n)
            /\ Len(c.backoffs) > 0 =>
                  c.out = IF Positive(TotalDelay(c.parts))
                          THEN TotalDelay(c.parts) ELSE defaultDelay

\* C28: for n > 0 RandomBackoff(n) is k x 100ms for the k drawn from
\* [0, n), so 0 <= result < n x 100ms; for n <= 0 it is the default delay.
C28_RandomBackoffWithinInterval ==
    LastCall("RandomBackoff") =>
        LET c == calc[1]
        IN  IF Positive(c.n)
            THEN /\ ~Negative(c.interval) /\ Less(c.interval, c.n)
                 /\ c.out = Mul64(c.interval, baseInterval)
                 /\ ~Negative(c.out)
                 /\ \/ Less(LargestExactInterval, c.n)
                    \/ Less(c.out, Mul64(c.n, baseInterval))
            ELSE c.out = defaultDelay

\* No field of the policy is nil or out of its range.
Normalised(conf) ==
    /\ ~conf.isNil
    /\ conf.ctx # Nil
    /\ conf.callback # Nil
    /\ conf.attempts \in 1..(MaxUint16 - 1)
    /\ conf.attemptsByError # None
    /\ conf.factor >= 0
    /\ Positive(conf.delay)
    /\ conf.jitter >= 0
    /\ conf.retryIfFunc # None
    /\ conf.backoffFunc # None

\* Every field of old that is set and in its range has its value in new.
KeepsValid(old, new) ==
    /\ old.ctx # Nil => new.ctx = old.ctx
    /\ old.callback # Nil => new.callback = old.callback
    /\ old.attempts \in 1..(MaxUint16 - 1) => new.attempts = old.attempts
    /\ old.attemptsByError # None => new.attemptsByError = old.attemptsByError
    /\ old.factor >= 0 => new.factor = old.factor
    /\ Positive(old.delay) => new.delay = old.delay
    /\ old.jitter >= 0 => new.jitter = old.jitter
    /\ old.retryIfFunc # None => new.retryIfFunc = old.retryIfFunc
    /\ old.backoffFunc # None => new.backoffFunc = old.backoffFunc
    /\ new.detail = old.detail

C25_FixConfigWaitIsConstant ==
    \A p \in Procs :
        (/\ engine = "built"
         /\ config.factor = 0
         /\ config.jitter = 0
         /\ config.backoffFunc = Some("FixBackOff")
         /\ backoff[p] # None)
        => /\ backoff[p][1] = Add64(FixBackOff(Int64(defaultDelayNum)), config.delay)
           /\ config.delay = defaultDelay => backoff[p][1] = Int64(1000 * Millisecond)

C25_Witness ==
    /\ engine = "built"
    /\ config = FixConfig
    /\ pc[1] = "budget"
    /\ result[1].count = defaultAttempts
    /\ Len(cbLog[1]) = defaultAttempts
    /\ backoff[1] = Some(Int64(1000 * Millisecond))

\* C31: when a goroutine leaves the budget checks after a failure with an
\* error E that has a per-error entry, and the attempt found the remaining
\* count r there, then for r > 0 the entry is r - 1 afterwards, also when the
\* invocation ends with ErrorRetryAttemptsExceeded on that attempt, and for
\* r = 0 the map is not written and the invocation ends with
\* ErrorRetryAttemptsByErrorExceeded; no entry is ever below 0 (a stored -1
\* would be the wrapped 2^64 - 1 of the uint64).
C31_PerErrorCountDecrementsToZero ==
    [][/\ \A p \in Procs :
            ( /\ pc[p] = "budget"
              /\ pc'[p] # pc[p]
              /\ engine' = "built"
              /\ errAttempts[p] # None )
            => LET r == errAttempts[p][1]
                   e == curErr[p]
               IN  IF r > 0
                   THEN /\ BudgetMap(config')[e] = r - 1
                        /\ result'[p].tryError \in {Nil, ErrorRetryAttemptsExceeded}
                        /\ result'[p].tryError = ErrorRetryAttemptsExceeded
                              <=> result[p].count >= config.attempts
                   ELSE /\ config' = config
                        /\ result'[p].tryError = ErrorRetryAttemptsByErrorExceeded
       /\ engine' = "built" =>
            \A e \in DOMAIN BudgetMap(config') : BudgetMap(config')[e] >= 0]_vars

\* An attempt found 1 for E1, the global budget ended the invocation, and
\* the entry is 0.
C31_Witness ==
    \E p \in Procs :
        /\ Returned(p)
        /\ result[p].tryError = ErrorRetryAttemptsExceeded
        /\ result[p].count = 1
        /\ opLog[p][1].err = "E1"
        /\ startBudget[p] = [x \in {"E1"} |-> 1]
        /\ BudgetMap(config) = [x \in {"E1"} |-> 0]

\* The smaller of two numbers.
Min(a, b) == IF a <= b THEN a ELSE b

\* What the invocation of p has taken from the entry of e so far: one for
\* each failure with e the predicate accepted, as long as the entry lasted.
UsedBy(p, e) ==
    IF Accepts(e)
    THEN Min(startBudget[p][e], FailsBefore(opLog[p], e, Len(opLog[p]) + 1))
    ELSE 0

\* What is left of the entries once the last invocation of slot 1 is over,
\* and the invocations that find an entry used up.
C32_EntriesStayUsed ==
    engine = "built" =>
        \A e \in DOMAIN BudgetMap(config) :
            /\ (Returned(1) /\ pc[2] = "idle")
                    => BudgetMap(config)[e] = startBudget[1][e] - UsedBy(1, e)
            /\ (Returned(1) /\ pc[2] # "idle")
                    => startBudget[2][e] <= startBudget[1][e] - UsedBy(1, e)
            /\ \A p \in Procs :
                    ( /\ pc[p] \notin {"idle", "budget"}
                      /\ startBudget[p][e] = 0
                      /\ Len(opLog[p]) >= 1
                      /\ opLog[p][1].err = e
                      /\ Accepts(e) )
                    => /\ Returned(p)
                       /\ result[p].tryError = ErrorRetryAttemptsByErrorExceeded
                       /\ result[p].count = 1
                       /\ Len(opLog[p]) = 1

\* C32: the remaining counts are those of the policy's one map and no step
\* of a sequence of invocations adds a key or raises an entry; what an
\* invocation took from an entry is missing for the invocations after it,
\* and one that finds 0 for E ends with ErrorRetryAttemptsByErrorExceeded
\* at Count = 1 when its first attempt fails with E.
C32_PerErrorCountsNeverRestored ==
    [][engine = "built" =>
          /\ DOMAIN BudgetMap(config') = DOMAIN BudgetMap(config)
          /\ \A e \in DOMAIN BudgetMap(config) :
                BudgetMap(config')[e] <= BudgetMap(config)[e]
          /\ C32_EntriesStayUsed']_vars

\* The invocation of slot 1 used up the 2 of E1 and ended on the third
\* failure; the one of slot 2 found 0 and ended on its first failure.
C32_Witness ==
    /\ startBudget[1] = [x \in {"E1"} |-> MaxBudget]
    /\ Returned(1)
    /\ AllFailWith(opLog[1], "E1")
    /\ result[1].tryError = ErrorRetryAttemptsByErrorExceeded
    /\ result[1].count = MaxBudget + 1
    /\ startBudget[2] = [x \in {"E1"} |-> 0]
    /\ Returned(2)
    /\ opLog[2][1].err = "E1"
    /\ result[2].tryError = ErrorRetryAttemptsByErrorExceeded
    /\ result[2].count = 1

\* The error of the attempt p is at has no entry in the per-error map.
Ungoverned(p) == curErr[p] \notin DOMAIN BudgetMap(config)

\* An invocation that ended with ErrorRetryAttemptsByErrorExceeded ended on
\* a governed error whose earlier failures alone had used the entry up, and
\* one whose failures were all ungoverned and accepted went on to the global
\* budget.
C33_OnlyOwnFailuresCount ==
    \A p \in Procs :
        Returned(p) =>
            LET log == opLog[p]
                n   == Len(log)
            IN  /\ result[p].tryError = ErrorRetryAttemptsByErrorExceeded
                    => /\ log[n].err \in DOMAIN startBudget[p]
                       /\ FailsBefore(log, log[n].err, n) >= startBudget[p][log[n].err]
                /\ ( /\ AllFail(log)
                      /\ \A k \in 1..n : /\ log[k].err \notin DOMAIN startBudget[p]
                                           /\ Accepts(log[k].err) )
                    => /\ result[p].tryError = ErrorRetryAttemptsExceeded
                       /\ result[p].count = config.attempts

\* C33: the budget checks after a failure with an error that has no entry
\* write nothing to the policy and end the invocation only with
\* ErrorRetryAttemptsExceeded, exactly when Count has reached the global
\* budget; the attempt itself writes nothing either. So the entry of a
\* governed error E falls only by failures with E.
C33_UngovernedErrorTouchesNoEntry ==
    [][engine = "built" =>
          /\ \A p \in Procs :
                /\ (pc[p] = "exec" /\ pc'[p] # pc[p]) => config' = config
                /\ (pc[p] = "budget" /\ pc'[p] # pc[p] /\ Ungoverned(p))
                        => /\ config' = config
                           /\ result'[p].tryError \in {Nil, ErrorRetryAttemptsExceeded}
                           /\ result'[p].tryError = ErrorRetryAttemptsExceeded
                                 <=> result[p].count >= config.attempts
          /\ C33_OnlyOwnFailuresCount']_vars

\* E1 has 1 left; the failures were E2, E1, E2: the global budget of 3 ended
\* the invocation and E1 is at 0.
C33_Witness ==
    /\ config.attempts = 3
    /\ startBudget[1] = [x \in {"E1"} |-> 1]
    /\ Returned(1)
    /\ Len(opLog[1]) = 3
    /\ opLog[1][1].err = "E2"
    /\ opLog[1][2].err = "E1"
    /\ opLog[1][3].err = "E2"
    /\ result[1].tryError = ErrorRetryAttemptsExceeded
    /\ result[1].count = 3
    /\ BudgetMap(config) = [x \in {"E1"} |-> 0]

\* The attempts of the invocation so far that failed with an error the
\* predicate accepts.
AcceptedFailures(log) ==
    {k \in 1..Len(log) : log[k].err # Nil /\ Accepts(log[k].err)}

\* C34: the OnRetry calls of an invocation are as many as its failing
\* attempts with an accepted error; the i-th call has count = i and the error
\* the i-th attempt returned.
C34_CallbackPerAcceptedFailure ==
    \A p \in Procs :
        (engine = "built" /\ HasOutcome(p)) =>
            /\ Len(cbLog[p]) = Cardinality(AcceptedFailures(opLog[p]))
            /\ \A i \in 1..Len(cbLog[p]) :
                    /\ cbLog[p][i].count = i
                    /\ cbLog[p][i].err = opLog[p][i].err

C34_Witness ==
    \E p \in Procs :
        /\ Returned(p)
        /\ result[p].tryError = Nil
        /\ result[p].count = 3
        /\ opLog[p][1].err = "E1"
        /\ opLog[p][2].err = "E2"
        /\ cbLog[p] = <<[count |-> 1, err |-> "E1"], [count |-> 2, err |-> "E2"]>>

\* C35: the timer of an invocation is first set to the initial delay; when
\* the loop goes on after a failed attempt it is set to the delay that
\* attempt's OnRetry call was given, which is the result of the backoff
\* function on the pressure plus the initial delay; and the duration it was
\* set to is still the one in force when its tick starts the next attempt.
C35_WaitIsNotifiedDelay ==
    [][\A p \in Procs :
          /\ (~InFlight(p) /\ pc'[p] = "select")
                => timerFor'[p] = Some(config'.delay)
          /\ (pc[p] = "exec" /\ pc'[p] = "budget")
                => /\ pressure'[p][1] \in Pressures(config, result'[p])
                   /\ \E d \in BackoffResults(config, pressure'[p][1]) :
                         onRetryDelay'[p] = Some(Add64(d, config.delay))
          /\ (pc[p] = "budget" /\ pc'[p] = "select")
                => /\ onRetryDelay[p] # None
                   /\ timerFor'[p] = onRetryDelay[p]
          /\ (pc[p] = "select" /\ pc'[p] \in {"select", "exec"})
                => /\ timerFor[p] # None
                   /\ timerFor'[p] = timerFor[p]
                   /\ result[p].count = 0 => timerFor[p] = Some(config.delay)]_vars

\* ExponentialBackOff, factor 1, no jitter, initial delay 500ms: the third
\* attempt starts after a wait of 2^2 * 100ms + 500ms.
C35_Witness ==
    /\ config.backoffFunc = Some("ExponentialBackOff")
    /\ config.factor = 1
    /\ config.jitter = 0
    /\ config.delay = defaultDelay
    /\ pc[1] = "exec"
    /\ result[1].count = 2
    /\ timerFor[1] = Some(Int64(900 * Millisecond))

\* C36: on an engine built by New (factor >= 0, jitter >= 0) the number
\* passed to the backoff function after a failed attempt is a whole number
\* >= 1: for some draw x of rand.Float64(), here in tenths, it is the whole
\* part of x * jitter + count * factor, or 5 when that is 0 or less; count is
\* at most the global budget.
C36_PressureAtLeastOne ==
    \A p \in Procs :
        (engine = "built" /\ pressure[p] # None) =>
            /\ config.factor >= 0
            /\ config.jitter >= 0
            /\ result[p].count \in 1..config.attempts
            /\ pressure[p][1] \in Nat
            /\ pressure[p][1] >= 1
            /\ \E rnd \in Float64Draws :
                  LET whole == (rnd * config.jitter
                                  + 10 * result[p].count * config.factor) \div 10
                  IN  pressure[p][1] = IF whole <= 0 THEN defaultDelayNum ELSE whole

\* No factor, the default jitter and a draw of 0: the whole part is 0 and
\* RandomBackOff is called with 5.
C36_Witness ==
    /\ engine = "built"
    /\ config.backoffFunc = Some("RandomBackOff")
    /\ config.factor = 0
    /\ config.jitter = defaultJitter
    /\ result[1].count = 2
    /\ pressure[1] = Some(defaultDelayNum)

\* C37: once the engine is built no step changes the token, the callback,
\* the global budget, the factor, the jitter, the initial delay, the
\* predicate, the backoff function or the detail flag of its policy; the
\* per-error map keeps its keys, and an entry changes only in the budget
\* checks of a goroutine whose current attempt returned that error.
C37_InvocationWritesOnlyOwnEntry ==
    [][engine = "built" =>
          /\ [config' EXCEPT !.attemptsByError = config.attemptsByError] = config
          /\ config'.attemptsByError # None
          /\ DOMAIN BudgetMap(config') = DOMAIN BudgetMap(config)
          /\ \A e \in DOMAIN BudgetMap(config) :
                BudgetMap(config')[e] # BudgetMap(config)[e]
                    => \E p \in Procs :
                          /\ pc[p] = "budget"
                          /\ pc'[p] # "budget"
                          /\ curErr[p] = e
                          /\ opLog[p][Len(opLog[p])].err = e]_vars

\* One failure with E1, then success: E1's entry is one less, E2's is as it
\* was and the rest of the policy is as New left it.
C37_Witness ==
    /\ Returned(1)
    /\ startBudget[1] = [x \in Errs |-> MaxBudget]
    /\ Len(opLog[1]) = 2
    /\ opLog[1][1].err = "E1"
    /\ result[1].tryError = Nil
    /\ BudgetMap(config) = [x \in Errs |-> IF x = "E1" THEN MaxBudget - 1 ELSE MaxBudget]
    /\ isConfigValid(config) = config
    /\ config.attempts = MaxAttempts
    /\ config.detail

\* C38: if timers fire and calls of fn return, every invocation that has
\* started returns; a returned invocation has exactly one of the five
\* outcomes (nil for success, the token's reason, ErrorRetryIf,
\* ErrorRetryAttemptsByErrorExceeded, ErrorRetryAttemptsExceeded), has made
\* as many calls of fn as its Count and at most the global budget, and makes
\* no call of fn afterwards.
C38_EveryInvocationEnds ==
    /\ \A p \in Procs : InFlight(p) ~> Returned(p)
    /\ [][\A p \in Procs :
             /\ Returned(p)' =>
                    /\ result'[p].tryError \in TerminalErrors
                    /\ result'[p].count = Len(opLog'[p])
                    /\ result'[p].count <= config'.attempts
             /\ (Returned(p) /\ opLog'[p] # opLog[p])
                    => (pc'[p] = "select" /\ opLog'[p] = <<>>)]_vars

C38_Witness ==
    /\ Returned(1)
    /\ config.attempts = defaultAttempts
    /\ result[1].count = defaultAttempts
    /\ result[1].tryError = ErrorRetryAttemptsExceeded
    /\ Len(opLog[1]) = defaultAttempts
    /\ timer[1] = "stopped"

\* The states of a timer that exists and has not been stopped.
Running == {"armed", "fired", "drained"}

\* C39: an invocation with an operation makes its timer when it starts and
\* makes no other: while it runs the timer is only reset after its tick was
\* received; whichever way the invocation returns (success, ErrorRetryIf,
\* ErrorRetryAttemptsByErrorExceeded, ErrorRetryAttemptsExceeded, the
\* token's reason) the timer is stopped; and no step of an invocation
\* touches the timer of another.
C39_OneTimerAlwaysStopped ==
    [][\A p \in Procs :
          /\ (~InFlight(p) /\ pc'[p] = "select")
                => (timer'[p] = "armed" /\ timerFor'[p] # None)
          /\ InFlight(p)' => timer'[p] \in Running
          /\ (InFlight(p) /\ timer'[p] = "armed" /\ timer[p] # "armed")
                => (timer[p] = "drained" /\ pc[p] = "budget" /\ pc'[p] = "select")
          /\ Returned(p)'
                => /\ timer'[p] = "stopped"
                   /\ timerFor'[p] = None
                   /\ result'[p].tryError \in TerminalErrors
          /\ (pc'[p] = pc[p] /\ timer'[p] # timer[p])
                => (pc[p] = "select" /\ timer[p] = "armed" /\ timer'[p] = "fired")]_vars

\* Cancelled in the wait after the first failed attempt: the timer, reset
\* for that wait, is stopped.
C39_Witness ==
    /\ Returned(1)
    /\ result[1].tryError = ContextCanceled
    /\ result[1].count = 1
    /\ Len(cbLog[1]) = 1
    /\ timer[1] = "stopped"
    /\ timerFor[1] = None

=============================================================================
